---- MODULE Spec2Model ----
(***************************************************************************)
(* The manual rewards-tree generation task of the watchtower               *)
(* (rocketpool/watchtower/respond-challenges.go, second file of the        *)
(* listing): generateRewardsTree.run polls the watchtower folder for       *)
(* request marker files, deletes the first one and starts the goroutine    *)
(* generateRewardsTree.generateRewardsTree, which runs the pipeline and    *)
(* writes the proof file.                                                   *)
(***************************************************************************)
EXTENDS Integers, Sequences, FiniteSets, TLC

(***************************************************************************)
(* Bounds of the model.                                                     *)
(***************************************************************************)
\* number of directory entries the outside world creates in one behaviour
MaxSubmits == 2

(***************************************************************************)
(* File names.  A name is a sequence of one-character strings, so that      *)
(* strings.HasSuffix, strings.TrimSuffix, strconv.ParseUint and the         *)
(* ordering of ioutil.ReadDir are computed on its characters.               *)
(***************************************************************************)
RegenerateRewardsTreeRequestSuffix == <<".", "r", "e", "q", "u", "e", "s", "t">>

\* the names the outside world may give to an entry of the watchtower folder
Name09 == <<"0", "9">> \o RegenerateRewardsTreeRequestSuffix
Name0x3 == <<"0", "x", "3">> \o RegenerateRewardsTreeRequestSuffix
Name1 == <<"1">> \o RegenerateRewardsTreeRequestSuffix
Name2 == <<"2">> \o RegenerateRewardsTreeRequestSuffix
NamePlain == <<"1">>

Names == {Name09, Name0x3, Name1, Name2, NamePlain}

\* what the outside world may create: <<name, kind>>
Inputs ==
    {<<Name09, "file">>, <<Name0x3, "file">>, <<Name1, "file">>,
     <<Name1, "dir">>, <<Name2, "file">>, <<NamePlain, "file">>}

\* byte value of a character (ASCII)
Code(c) ==
    CASE c = "." -> 46
      [] c = "0" -> 48 [] c = "1" -> 49 [] c = "2" -> 50 [] c = "3" -> 51
      [] c = "4" -> 52 [] c = "5" -> 53 [] c = "6" -> 54 [] c = "7" -> 55
      [] c = "8" -> 56 [] c = "9" -> 57
      [] c = "b" -> 98 [] c = "e" -> 101 [] c = "o" -> 111
      [] c = "q" -> 113 [] c = "r" -> 114 [] c = "s" -> 115
      [] c = "t" -> 116 [] c = "u" -> 117 [] c = "x" -> 120
      [] OTHER -> 0

\* strings.HasSuffix(s, suffix)
HasSuffix(s, suffix) ==
    /\ Len(s) >= Len(suffix)
    /\ SubSeq(s, Len(s) - Len(suffix) + 1, Len(s)) = suffix

\* strings.TrimSuffix(s, suffix)
TrimSuffix(s, suffix) ==
    IF HasSuffix(s, suffix) THEN SubSeq(s, 1, Len(s) - Len(suffix)) ELSE s

\* byte-wise s < t, the order ioutil.ReadDir sorts file names in
RECURSIVE StrLess(_, _)
StrLess(s, t) ==
    IF t = <<>> THEN FALSE
    ELSE IF s = <<>> THEN TRUE
    ELSE IF Code(Head(s)) # Code(Head(t)) THEN Code(Head(s)) < Code(Head(t))
    ELSE StrLess(Tail(s), Tail(t))

(***************************************************************************)
(* strconv.ParseUint(s, 0, 64).  The result is <<ok, value>>.  With base 0  *)
(* the base is taken from the prefix: "0x" 16, "0o" 8, "0b" 2, a leading    *)
(* "0" 8, otherwise 10.  A character that is no digit of the base is a      *)
(* syntax error, and so is the empty string.  (The names of this model are  *)
(* at most three characters before the suffix and hold no underscore, so    *)
(* the range check of 64 bits and the underscore rule never apply.)         *)
(***************************************************************************)
\* value of a digit character: 0-9, a-z as 10-35, anything else no digit
DigitVal(c) ==
    IF Code(c) >= 48 /\ Code(c) <= 57 THEN Code(c) - 48
    ELSE IF Code(c) >= 97 /\ Code(c) <= 122 THEN Code(c) - 97 + 10
    ELSE 99

\* the digits loop of ParseUint: n accumulated so far, <<FALSE, 0>> on a bad digit
RECURSIVE ParseDigits(_, _, _)
ParseDigits(s, base, n) ==
    IF s = <<>> THEN <<TRUE, n>>
    ELSE IF DigitVal(Head(s)) >= base THEN <<FALSE, 0>>
    ELSE ParseDigits(Tail(s), base, n * base + DigitVal(Head(s)))

ParseUint(s) ==
    IF s = <<>> THEN <<FALSE, 0>>
    ELSE IF Head(s) = "0"
         THEN IF Len(s) >= 3 /\ s[2] = "b" THEN ParseDigits(SubSeq(s, 3, Len(s)), 2, 0)
              ELSE IF Len(s) >= 3 /\ s[2] = "o" THEN ParseDigits(SubSeq(s, 3, Len(s)), 8, 0)
              ELSE IF Len(s) >= 3 /\ s[2] = "x" THEN ParseDigits(SubSeq(s, 3, Len(s)), 16, 0)
              ELSE ParseDigits(Tail(s), 8, 0)
    ELSE ParseDigits(s, 10, 0)

(***************************************************************************)
(* The collaborators of the pipeline: the chain's snapshot events, the      *)
(* reward calculator, the Merkle tree builder and the JSON wrapper.         *)
(***************************************************************************)
\* the interval indexes the names of this model parse to
Indexes ==
    {ParseUint(TrimSuffix(n, RegenerateRewardsTreeRequestSuffix))[2] :
        n \in {m \in Names :
                 /\ HasSuffix(m, RegenerateRewardsTreeRequestSuffix)
                 /\ ParseUint(TrimSuffix(m, RegenerateRewardsTreeRequestSuffix))[1]}}

\* rprewards.CalculateRplRewards: the results the calculator may return, each
\* nodeRewardsMap a set of <<address, amount>>, networkRewardsMap a set of
\* <<network, amount>>, invalidNodeNetworks a set of <<address, network>>
CalcResults ==
    {[nodeRewardsMap |-> {<<1, 5>>, <<2, 7>>}, networkRewardsMap |-> {<<0, 12>>},
      invalidNodeNetworks |-> {}],
     [nodeRewardsMap |-> {<<1, 5>>, <<2, 8>>}, networkRewardsMap |-> {<<0, 5>>},
      invalidNodeNetworks |-> {<<2, 9>>}]}

\* hash of a leaf <<address, amount>> and of a pair of nodes
LeafHash(leaf) == (leaf[1] * 31 + leaf[2] * 7 + 1) % 97
NodeHash(a, b) == (a * 37 + b * 11 + 3) % 97

\* the leaves in canonical order: ascending address
RECURSIVE SortLeaves(_)
SortLeaves(leaves) ==
    IF leaves = {} THEN <<>>
    ELSE LET first == CHOOSE l \in leaves : \A m \in leaves : l[1] <= m[1]
         IN <<first>> \o SortLeaves(leaves \ {first})

\* one level up: neighbours hashed in pairs, an odd last node paired with itself
RECURSIVE HashLevel(_)
HashLevel(nodes) ==
    IF Len(nodes) = 0 THEN <<>>
    ELSE IF Len(nodes) = 1 THEN <<NodeHash(nodes[1], nodes[1])>>
    ELSE <<NodeHash(nodes[1], nodes[2])>> \o HashLevel(SubSeq(nodes, 3, Len(nodes)))

RECURSIVE TreeRoot(_)
TreeRoot(nodes) ==
    IF Len(nodes) = 0 THEN 0
    ELSE IF Len(nodes) = 1 THEN nodes[1]
    ELSE TreeRoot(HashLevel(nodes))

\* tree.Root() of rprewards.GenerateMerkleTree(nodeRewardsMap): the leaves are the
\* nodes with a nonzero amount
MerkleRoot(nodeRewardsMap) ==
    LET sorted == SortLeaves({l \in nodeRewardsMap : l[2] # 0})
    IN TreeRoot([i \in 1..Len(sorted) |-> LeafHash(sorted[i])])

\* rewards.GetRewardSnapshotEvent: the snapshot events of the chain, none for
\* interval 3; the set holds the event of the interval, or nothing
GetRewardSnapshotEvent(index) ==
    IF index = 1 THEN {[MerkleRoot |-> MerkleRoot({<<1, 5>>, <<2, 7>>})]}
    ELSE IF index = 2 THEN {[MerkleRoot |-> MerkleRoot({<<1, 5>>, <<2, 8>>})]}
    ELSE {}

\* rprewards.GenerateTreeJson(tree.Root(), nodeRewardsMap, networkRewardsMap)
GenerateTreeJson(root, nodeRewardsMap, networkRewardsMap) ==
    [root |-> root, nodeRewards |-> nodeRewardsMap, networkRewards |-> networkRewardsMap]

(***************************************************************************)
(* State.                                                                   *)
(***************************************************************************)
VARIABLES
    isRunning,    \* generateRewardsTree.isRunning
    requestDir,   \* the watchtower folder: name -> "none", "file" or "dir"
    created,      \* name -> how many times a regular file of that name was created
    run,          \* invocation of run() -> its frame (position and locals)
    gens,         \* the goroutines started by run(), in order of start
    artifacts,    \* interval index -> the rewards tree file of that interval
    skipped,      \* marker files <<name, serial>> present when a poll found isRunning set
    served,       \* marker files <<name, serial>> whose deletion started a generation
    tree,         \* the Merkle tree builder at work on one distribution (SpecMerkle)
    respond,      \* the respond-to-challenges task and the chain it reads (SpecChallenges)
    purging       \* the wallet purge call and what it acts on (SpecPurge)

\* the state of the other tasks of the repository, which the rewards tree task
\* neither reads nor writes
others == <<tree, respond, purging>>

vars == <<isRunning, requestDir, created, run, gens, artifacts, skipped, served, others>>

\* the other tasks at rest
OthersIdle == tree = <<>> /\ respond = <<>> /\ purging = <<>>

\* the frame of an invocation of run() that has not started
NoRun ==
    [pc |-> "idle", files |-> <<>>, filename |-> <<>>, index |-> 0, err |-> "",
     sawRunning |-> FALSE, removed |-> {}, started |-> <<>>]

\* the frame of a goroutine generateRewardsTree(index) as it starts; before is the
\* rewards tree file of the interval as the goroutine found it
NewGen(index, before) ==
    [index |-> index, pc |-> "interval", event |-> {}, calc |-> {}, root |-> {},
     wrapper |-> {}, wrote |-> FALSE, failedAt |-> "", before |-> before]

\* a file of the artifact directory
NoFile == [exists |-> FALSE, complete |-> FALSE, bytes |-> {}]

\* the marker files of the folder: regular files whose name ends with the suffix
Markers ==
    {n \in Names : requestDir[n] = "file" /\ HasSuffix(n, RegenerateRewardsTreeRequestSuffix)}

\* generateRewardsTree as newGenerateRewardsTree leaves it, the folder empty
Init ==
    /\ isRunning = FALSE
    /\ requestDir = [n \in Names |-> "none"]
    /\ created = [n \in Names |-> 0]
    /\ run = [p \in {1} |-> NoRun]
    /\ gens = <<>>
    /\ artifacts = [i \in Indexes |-> NoFile]
    /\ skipped = {}
    /\ served = {}
    /\ OthersIdle

(***************************************************************************)
(* The outside world: the protocol or the operator's tooling creates an     *)
(* entry in the watchtower folder.                                          *)
(***************************************************************************)
RECURSIVE SumCreated(_)
SumCreated(S) ==
    IF S = {} THEN 0
    ELSE LET n == CHOOSE m \in S : TRUE IN created[n] + SumCreated(S \ {n})

\* entries created so far
Submits == SumCreated(Names) + Cardinality({n \in Names : requestDir[n] = "dir"})

Create(name, kind) ==
    /\ Submits < MaxSubmits
    /\ requestDir[name] = "none"
    /\ requestDir' = [requestDir EXCEPT ![name] = kind]
    /\ created' = [created EXCEPT ![name] = IF kind = "file" THEN @ + 1 ELSE @]
    /\ UNCHANGED <<isRunning, run, gens, artifacts, skipped, served>>
    /\ UNCHANGED others

(***************************************************************************)
(* generateRewardsTree.run, one action per step between two accesses to     *)
(* shared state (the flag under its lock, the folder).                      *)
(***************************************************************************)
RECURSIVE SortNames(_)
SortNames(S) ==
    IF S = {} THEN <<>>
    ELSE LET first == CHOOSE n \in S : \A m \in S \ {n} : StrLess(n, m)
         IN <<first>> \o SortNames(S \ {first})

\* ioutil.ReadDir(requestDir): the entries, sorted by file name
ReadDir ==
    LET sorted == SortNames({n \in Names : requestDir[n] # "none"})
    IN [i \in 1..Len(sorted) |->
            [name |-> sorted[i], isDir |-> requestDir[sorted[i]] = "dir",
             serial |-> created[sorted[i]]]]

\* IsRequest without the test of file.IsDir()
IsRequestAnyKind(file) ==
    HasSuffix(file.name, RegenerateRewardsTreeRequestSuffix)

\* the condition of the loop body: a request marker
IsRequest(file) ==
    HasSuffix(file.name, RegenerateRewardsTreeRequestSuffix) /\ ~file.isDir

\* position of the entry the loop stops at, 0 when it runs to the end
FirstRequest(files) ==
    IF \E i \in 1..Len(files) : IsRequest(files[i])
    THEN CHOOSE i \in 1..Len(files) :
            IsRequest(files[i]) /\ \A j \in 1..(i - 1) : ~IsRequest(files[j])
    ELSE 0

\* Run_Check deleting the pending request markers when it finds isRunning set
Run_CheckDropsRequests(p) ==
    /\ run[p].pc \in {"idle", "done"}
    /\ IF isRunning
       THEN /\ run' = [run EXCEPT ![p] = [NoRun EXCEPT !.pc = "done", !.sawRunning = TRUE]]
            /\ skipped' = skipped \cup {<<n, created[n]>> : n \in Markers}
            /\ requestDir' = [n \in Names |-> IF n \in Markers THEN "none" ELSE requestDir[n]]
       ELSE /\ run' = [run EXCEPT ![p] = [NoRun EXCEPT !.pc = "readdir"]]
            /\ UNCHANGED <<skipped, requestDir>>
    /\ UNCHANGED <<isRunning, created, gens, artifacts, served>>
    /\ UNCHANGED others

\* the check of isRunning under the lock
Run_Check(p) ==
    /\ run[p].pc \in {"idle", "done"}
    /\ IF isRunning
       THEN /\ run' = [run EXCEPT ![p] = [NoRun EXCEPT !.pc = "done", !.sawRunning = TRUE]]
            /\ skipped' = skipped \cup {<<n, created[n]>> : n \in Markers}
       ELSE /\ run' = [run EXCEPT ![p] = [NoRun EXCEPT !.pc = "readdir"]]
            /\ UNCHANGED skipped
    /\ UNCHANGED <<isRunning, requestDir, created, gens, artifacts, served>>
    /\ UNCHANGED others

\* the enumeration of the folder, which may fail
Run_ReadDir(p) ==
    /\ run[p].pc = "readdir"
    /\ \E ok \in BOOLEAN :
        run' = [run EXCEPT ![p] =
                  IF ok THEN [@ EXCEPT !.pc = "scan", !.files = ReadDir]
                  ELSE [@ EXCEPT !.pc = "done", !.err = "enumerate"]]
    /\ UNCHANGED <<isRunning, requestDir, created, gens, artifacts, skipped, served>>
    /\ UNCHANGED others

\* Run_Scan going on to the next request marker when an index does not parse
Run_ScanSkipsBadIndex(p) ==
    /\ run[p].pc = "scan"
    /\ LET files == run[p].files
           good == {i \in 1..Len(files) :
                      /\ IsRequest(files[i])
                      /\ ParseUint(TrimSuffix(files[i].name,
                                              RegenerateRewardsTreeRequestSuffix))[1]}
       IN run' = [run EXCEPT ![p] =
                    IF good = {} THEN [@ EXCEPT !.pc = "done"]
                    ELSE LET i == CHOOSE k \in good : \A j \in good : k <= j
                         IN [@ EXCEPT !.pc = "remove", !.filename = files[i].name,
                                      !.index = ParseUint(TrimSuffix(files[i].name,
                                                    RegenerateRewardsTreeRequestSuffix))[2]]]
    /\ UNCHANGED <<isRunning, requestDir, created, gens, artifacts, skipped, served>>
    /\ UNCHANGED others

\* the loop up to the first request marker and the parse of its index
Run_Scan(p) ==
    /\ run[p].pc = "scan"
    /\ LET i == FirstRequest(run[p].files)
           filename == run[p].files[i].name
           parsed == ParseUint(TrimSuffix(filename, RegenerateRewardsTreeRequestSuffix))
       IN run' = [run EXCEPT ![p] =
                    IF i = 0 THEN [@ EXCEPT !.pc = "done"]
                    ELSE IF ~parsed[1]
                         THEN [@ EXCEPT !.pc = "done", !.filename = filename, !.err = "parse"]
                         ELSE [@ EXCEPT !.pc = "remove", !.filename = filename,
                                        !.index = parsed[2]]]
    /\ UNCHANGED <<isRunning, requestDir, created, gens, artifacts, skipped, served>>
    /\ UNCHANGED others

\* Run_Remove going on without having deleted the file
Run_RemoveKeepsFile(p) ==
    /\ run[p].pc = "remove"
    /\ run' = [run EXCEPT ![p].pc = "lock"]
    /\ UNCHANGED <<isRunning, requestDir, created, gens, artifacts, skipped, served>>
    /\ UNCHANGED others

\* os.Remove(path), which fails when the entry is gone and may fail otherwise
Run_Remove(p) ==
    /\ run[p].pc = "remove"
    /\ LET filename == run[p].filename IN
       \E ok \in BOOLEAN :
        IF ok /\ requestDir[filename] # "none"
        THEN /\ requestDir' = [requestDir EXCEPT ![filename] = "none"]
             /\ run' = [run EXCEPT ![p].pc = "lock",
                                   ![p].removed = @ \cup
                                       {[name |-> filename, kind |-> requestDir[filename],
                                         serial |-> created[filename]]}]
        ELSE /\ run' = [run EXCEPT ![p].pc = "done", ![p].err = "remove"]
             /\ UNCHANGED requestDir
    /\ UNCHANGED <<isRunning, created, gens, artifacts, skipped, served>>
    /\ UNCHANGED others

\* t.isRunning = true under the lock
Run_SetRunning(p) ==
    /\ run[p].pc = "lock"
    /\ isRunning' = TRUE
    /\ run' = [run EXCEPT ![p].pc = "go"]
    /\ UNCHANGED <<requestDir, created, gens, artifacts, skipped, served>>
    /\ UNCHANGED others

\* Run_Go calling generateRewardsTree without go: run() waits for the generation
Run_GoWaits(p) ==
    /\ run[p].pc = "go"
    /\ gens' = Append(gens, NewGen(run[p].index, artifacts[run[p].index]))
    /\ run' = [run EXCEPT ![p].pc = "wait", ![p].started = Append(@, run[p].index)]
    /\ served' = served \cup {<<r.name, r.serial>> : r \in run[p].removed}
    /\ UNCHANGED <<isRunning, requestDir, created, artifacts, skipped>>
    /\ UNCHANGED others

\* go t.generateRewardsTree(index), and the return
Run_Go(p) ==
    /\ run[p].pc = "go"
    /\ gens' = Append(gens, NewGen(run[p].index, artifacts[run[p].index]))
    /\ run' = [run EXCEPT ![p].pc = "done", ![p].started = Append(@, run[p].index)]
    /\ served' = served \cup {<<r.name, r.serial>> : r \in run[p].removed}
    /\ UNCHANGED <<isRunning, requestDir, created, artifacts, skipped>>
    /\ UNCHANGED others

(***************************************************************************)
(* generateRewardsTree.generateRewardsTree, one action per call that may    *)
(* fail; a failure leads to handleError.                                    *)
(***************************************************************************)
\* the stage at position pc of goroutine g ends: with the frame next, or in error
Stage(g, pc, next) ==
    /\ g \in 1..Len(gens)
    /\ gens[g].pc = pc
    /\ \E ok \in BOOLEAN :
        gens' = [gens EXCEPT ![g] =
                   IF ok THEN next
                   ELSE [@ EXCEPT !.pc = "handleError", !.failedAt = pc]]

Gen_GetEventLogInterval(g) ==
    /\ Stage(g, "interval", [gens[g] EXCEPT !.pc = "event"])
    /\ UNCHANGED <<isRunning, requestDir, created, run, artifacts, skipped, served>>
    /\ UNCHANGED others

\* fails when the chain holds no snapshot event of the interval
Gen_GetRewardSnapshotEvent(g) ==
    /\ g \in 1..Len(gens)
    /\ gens[g].pc = "event"
    /\ LET rewardsEvent == GetRewardSnapshotEvent(gens[g].index) IN
       \E ok \in BOOLEAN :
        gens' = [gens EXCEPT ![g] =
                   IF ok /\ rewardsEvent # {}
                   THEN [@ EXCEPT !.pc = "eth2config", !.event = rewardsEvent]
                   ELSE [@ EXCEPT !.pc = "handleError", !.failedAt = "event"]]
    /\ UNCHANGED <<isRunning, requestDir, created, run, artifacts, skipped, served>>
    /\ UNCHANGED others

Gen_GetEth2Config(g) ==
    /\ Stage(g, "eth2config", [gens[g] EXCEPT !.pc = "elblock"])
    /\ UNCHANGED <<isRunning, requestDir, created, run, artifacts, skipped, served>>
    /\ UNCHANGED others

Gen_GetELBlockHeaderForTime(g) ==
    /\ Stage(g, "elblock", [gens[g] EXCEPT !.pc = "calc"])
    /\ UNCHANGED <<isRunning, requestDir, created, run, artifacts, skipped, served>>
    /\ UNCHANGED others

\* Gen_CalculateRplRewards treating a node with an invalid network as an error
Gen_CalculateRplRewardsRejectsInvalid(g) ==
    /\ g \in 1..Len(gens)
    /\ gens[g].pc = "calc"
    /\ \E result \in CalcResults : \E ok \in BOOLEAN :
        gens' = [gens EXCEPT ![g] =
                   IF ~ok THEN [@ EXCEPT !.pc = "handleError", !.failedAt = "calc"]
                   ELSE IF result.invalidNodeNetworks # {}
                        THEN [@ EXCEPT !.pc = "handleError", !.failedAt = "calc",
                                       !.calc = {result}]
                        ELSE [@ EXCEPT !.pc = "tree", !.calc = {result}]]
    /\ UNCHANGED <<isRunning, requestDir, created, run, artifacts, skipped, served>>
    /\ UNCHANGED others

\* invalidNodeNetworks is only logged
Gen_CalculateRplRewards(g) ==
    /\ \E result \in CalcResults :
        Stage(g, "calc", [gens[g] EXCEPT !.pc = "tree", !.calc = {result}])
    /\ UNCHANGED <<isRunning, requestDir, created, run, artifacts, skipped, served>>
    /\ UNCHANGED others

Gen_GenerateMerkleTree(g) ==
    /\ Stage(g, "tree",
             [gens[g] EXCEPT !.pc = "validate",
                  !.root = {MerkleRoot(c.nodeRewardsMap) : c \in gens[g].calc}])
    /\ UNCHANGED <<isRunning, requestDir, created, run, artifacts, skipped, served>>
    /\ UNCHANGED others

\* Gen_ValidateRoot treating a root mismatch as an error
Gen_ValidateRootAborts(g) ==
    /\ g \in 1..Len(gens)
    /\ gens[g].pc = "validate"
    /\ gens' = [gens EXCEPT ![g] =
                  IF gens[g].root = {e.MerkleRoot : e \in gens[g].event}
                  THEN [@ EXCEPT !.pc = "marshal"]
                  ELSE [@ EXCEPT !.pc = "handleError", !.failedAt = "validate"]]
    /\ UNCHANGED <<isRunning, requestDir, created, run, artifacts, skipped, served>>
    /\ UNCHANGED others

\* the comparison with rewardsEvent.MerkleRoot: both branches only log
Gen_ValidateRoot(g) ==
    /\ g \in 1..Len(gens)
    /\ gens[g].pc = "validate"
    /\ gens' = [gens EXCEPT ![g].pc = "marshal"]
    /\ UNCHANGED <<isRunning, requestDir, created, run, artifacts, skipped, served>>
    /\ UNCHANGED others

\* Gen_Marshal without the return after handleError: the goroutine goes on to write
Gen_MarshalNoReturn(g) ==
    /\ g \in 1..Len(gens)
    /\ gens[g].pc = "marshal"
    /\ \E ok \in BOOLEAN :
        IF ok
        THEN /\ gens' = [gens EXCEPT ![g].pc = "open",
                             ![g].wrapper =
                                 {GenerateTreeJson(r, c.nodeRewardsMap, c.networkRewardsMap) :
                                    r \in gens[g].root, c \in gens[g].calc}]
             /\ UNCHANGED isRunning
        ELSE /\ gens' = [gens EXCEPT ![g].pc = "open", ![g].failedAt = "marshal"]
             /\ isRunning' = FALSE
    /\ UNCHANGED <<requestDir, created, run, artifacts, skipped, served>>
    /\ UNCHANGED others

\* GenerateTreeJson and json.Marshal
Gen_Marshal(g) ==
    /\ Stage(g, "marshal",
             [gens[g] EXCEPT !.pc = "open",
                  !.wrapper = {GenerateTreeJson(r, c.nodeRewardsMap, c.networkRewardsMap) :
                                 r \in gens[g].root, c \in gens[g].calc}])
    /\ UNCHANGED <<isRunning, requestDir, created, run, artifacts, skipped, served>>
    /\ UNCHANGED others

\* ioutil.WriteFile, first half: os.OpenFile with O_WRONLY|O_CREATE|O_TRUNC
Gen_WriteFileOpen(g) ==
    /\ g \in 1..Len(gens)
    /\ gens[g].pc = "open"
    /\ \E ok \in BOOLEAN :
        IF ok
        THEN /\ artifacts' = [artifacts EXCEPT ![gens[g].index] =
                                [exists |-> TRUE, complete |-> FALSE, bytes |-> {}]]
             /\ gens' = [gens EXCEPT ![g].pc = "write", ![g].wrote = TRUE]
        ELSE /\ gens' = [gens EXCEPT ![g].pc = "handleError", ![g].failedAt = "write"]
             /\ UNCHANGED artifacts
    /\ UNCHANGED <<isRunning, requestDir, created, run, skipped, served>>
    /\ UNCHANGED others

\* ioutil.WriteFile, second half: f.Write(data) and f.Close()
Gen_WriteFileWrite(g) ==
    /\ g \in 1..Len(gens)
    /\ gens[g].pc = "write"
    /\ \E ok \in BOOLEAN :
        IF ok
        THEN /\ artifacts' = [artifacts EXCEPT ![gens[g].index] =
                                [exists |-> TRUE, complete |-> TRUE, bytes |-> gens[g].wrapper]]
             /\ gens' = [gens EXCEPT ![g].pc = "finish"]
        ELSE /\ gens' = [gens EXCEPT ![g].pc = "handleError", ![g].failedAt = "write"]
             /\ UNCHANGED artifacts
    /\ UNCHANGED <<isRunning, requestDir, created, run, skipped, served>>
    /\ UNCHANGED others

\* Gen_Finish without the reset of isRunning
Gen_FinishNoReset(g) ==
    /\ g \in 1..Len(gens)
    /\ gens[g].pc = "finish"
    /\ gens' = [gens EXCEPT ![g].pc = "ok"]
    /\ UNCHANGED <<isRunning, requestDir, created, run, artifacts, skipped, served>>
    /\ UNCHANGED others

\* the end of generateRewardsTree: t.isRunning = false under the lock
Gen_Finish(g) ==
    /\ g \in 1..Len(gens)
    /\ gens[g].pc = "finish"
    /\ isRunning' = FALSE
    /\ gens' = [gens EXCEPT ![g].pc = "ok"]
    /\ UNCHANGED <<requestDir, created, run, artifacts, skipped, served>>
    /\ UNCHANGED others

\* Gen_HandleError starting the generation of the interval again
Gen_HandleErrorRetries(g) ==
    /\ g \in 1..Len(gens)
    /\ gens[g].pc = "handleError"
    /\ gens' = Append([gens EXCEPT ![g].pc = "failed"],
                      NewGen(gens[g].index, artifacts[gens[g].index]))
    /\ UNCHANGED <<isRunning, requestDir, created, run, artifacts, skipped, served>>
    /\ UNCHANGED others

\* Gen_HandleError without the reset of isRunning
Gen_HandleErrorNoReset(g) ==
    /\ g \in 1..Len(gens)
    /\ gens[g].pc = "handleError"
    /\ gens' = [gens EXCEPT ![g].pc = "failed"]
    /\ UNCHANGED <<isRunning, requestDir, created, run, artifacts, skipped, served>>
    /\ UNCHANGED others

\* handleError: t.isRunning = false under the lock
Gen_HandleError(g) ==
    /\ g \in 1..Len(gens)
    /\ gens[g].pc = "handleError"
    /\ isRunning' = FALSE
    /\ gens' = [gens EXCEPT ![g].pc = "failed"]
    /\ UNCHANGED <<requestDir, created, run, artifacts, skipped, served>>
    /\ UNCHANGED others

(***************************************************************************)
(* Specifications.  Spec: the single periodic driver of the watchtower, so  *)
(* invocations of run() never overlap.  SpecConcurrent: invocations of      *)
(* run() that overlap.                                                      *)
(***************************************************************************)
\* overlapping invocations of run() in SpecConcurrent
MaxConcurrentRuns == 2

\* two request markers are pending in the folder as the invocations begin
InitConcurrent ==
    /\ isRunning = FALSE
    /\ requestDir = [n \in Names |-> IF n \in {Name1, Name2} THEN "file" ELSE "none"]
    /\ created = [n \in Names |-> IF n \in {Name1, Name2} THEN 1 ELSE 0]
    /\ run = [p \in 1..MaxConcurrentRuns |-> NoRun]
    /\ gens = <<>>
    /\ artifacts = [i \in Indexes |-> NoFile]
    /\ skipped = {}
    /\ served = {}
    /\ OthersIdle

\* the steps of run() and of the goroutines it starts
Steps ==
    \/ \E p \in DOMAIN run : Run_Check(p)
    \/ \E p \in DOMAIN run : Run_ReadDir(p)
    \/ \E p \in DOMAIN run : Run_Scan(p)
    \/ \E p \in DOMAIN run : Run_Remove(p)
    \/ \E p \in DOMAIN run : Run_SetRunning(p)
    \/ \E p \in DOMAIN run : Run_Go(p)
    \/ \E g \in 1..Len(gens) : Gen_GetEventLogInterval(g)
    \/ \E g \in 1..Len(gens) : Gen_GetRewardSnapshotEvent(g)
    \/ \E g \in 1..Len(gens) : Gen_GetEth2Config(g)
    \/ \E g \in 1..Len(gens) : Gen_GetELBlockHeaderForTime(g)
    \/ \E g \in 1..Len(gens) : Gen_CalculateRplRewards(g)
    \/ \E g \in 1..Len(gens) : Gen_GenerateMerkleTree(g)
    \/ \E g \in 1..Len(gens) : Gen_ValidateRoot(g)
    \/ \E g \in 1..Len(gens) : Gen_Marshal(g)
    \/ \E g \in 1..Len(gens) : Gen_WriteFileOpen(g)
    \/ \E g \in 1..Len(gens) : Gen_WriteFileWrite(g)
    \/ \E g \in 1..Len(gens) : Gen_Finish(g)
    \/ \E g \in 1..Len(gens) : Gen_HandleError(g)

Next ==
    \/ \E in \in Inputs : Create(in[1], in[2])
    \/ Steps

Spec == Init /\ [][Next]_vars

SpecConcurrent == InitConcurrent /\ [][Steps]_vars

(***************************************************************************)
(* Properties.                                                              *)
(***************************************************************************)
\* the goroutine has returned
Ended(g) == gens[g].pc \in {"ok", "failed"}

\* the goroutines that have been started and have not returned
InFlight == {g \in 1..Len(gens) : ~Ended(g)}

\* the comparison of generateRewardsTree: root = rewardsEvent.MerkleRoot
RootMatches(g) == gens[g].root = {e.MerkleRoot : e \in gens[g].event}

\* no invocation of run() stands between setting isRunning and its go statement
NoneStarting == \A p \in DOMAIN run : run[p].pc # "go"

\* files[i] is the first entry of the enumeration that is a regular file whose
\* name ends with the request suffix
FirstMarkerAt(files, i) ==
    /\ i \in 1..Len(files)
    /\ HasSuffix(files[i].name, RegenerateRewardsTreeRequestSuffix)
    /\ ~files[i].isDir
    /\ \A j \in 1..(i - 1) :
          ~(HasSuffix(files[j].name, RegenerateRewardsTreeRequestSuffix) /\ ~files[j].isDir)

\* the index in the name of a marker file
IndexOf(name) == ParseUint(TrimSuffix(name, RegenerateRewardsTreeRequestSuffix))

\* the file <<name, serial>> is in the folder
OnDisk(name, serial) == requestDir[name] = "file" /\ created[name] = serial

\* C1 (under SpecConcurrent): whatever invocations of run() overlap, at most one
\* generation goroutine is in flight at any instant.
C1_AtMostOneInFlight == Cardinality(InFlight) <= 1

\* C2: once the background generation has ended, by success or by a failure at any
\* stage, isRunning is false (until an invocation of run() sets it again, which it
\* does right before its go statement).
C2_EndResetsIsRunning ==
    \A g \in 1..Len(gens) :
        (Ended(g) /\ g = Len(gens) /\ NoneStarting) => isRunning = FALSE

C2_Witness ==
    \E g, h \in 1..Len(gens) :
        /\ gens[g].pc = "failed" /\ gens[g].failedAt = "write"
        /\ gens[h].pc = "ok"
        /\ isRunning = FALSE

\* C3: a poll that found no generation in flight, met no I/O error, and whose
\* enumeration holds as first request marker a file N<suffix> with a parseable index N
\* has deleted that file and has started exactly one generation, for index N.
C3_PollServesFirstMarker ==
    \A p \in DOMAIN run : \A i \in 1..Len(run[p].files) :
        (/\ run[p].pc = "done" /\ ~run[p].sawRunning /\ run[p].err = ""
         /\ FirstMarkerAt(run[p].files, i)
         /\ IndexOf(run[p].files[i].name)[1])
        => /\ ~OnDisk(run[p].files[i].name, run[p].files[i].serial)
           /\ run[p].started = <<IndexOf(run[p].files[i].name)[2]>>
           /\ \E g \in 1..Len(gens) : gens[g].index = IndexOf(run[p].files[i].name)[2]

C3_Witness ==
    \E p \in DOMAIN run :
        /\ run[p].pc = "done" /\ run[p].err = ""
        /\ FirstMarkerAt(run[p].files, 1)
        /\ run[p].files[1].name = Name0x3
        /\ run[p].started = <<3>>
        /\ requestDir[Name0x3] = "none"

\* C4: a generation whose root differs from the canonical root of the snapshot event
\* is not aborted by the comparison: it can only fail in serializing or writing, and
\* when it does not, the file of its interval holds its proof wrapper and isRunning is
\* false after its end.
C4_RootMismatchStillWrites ==
    \A g \in 1..Len(gens) :
        (gens[g].root # {} /\ ~RootMatches(g))
        => /\ gens[g].failedAt \in {"", "marshal", "write"}
           /\ gens[g].pc \notin {"interval", "event", "eth2config", "elblock", "calc", "tree"}
           /\ (gens[g].pc \in {"finish", "ok"} /\ g = Len(gens))
                => /\ gens[g].wrote
                   /\ artifacts[gens[g].index] =
                        [exists |-> TRUE, complete |-> TRUE, bytes |-> gens[g].wrapper]
           /\ (gens[g].pc = "ok" /\ g = Len(gens) /\ NoneStarting) => isRunning = FALSE

C4_Witness ==
    \E g \in 1..Len(gens) :
        /\ gens[g].root # {} /\ ~RootMatches(g)
        /\ gens[g].pc = "ok"
        /\ artifacts[gens[g].index].complete
        /\ isRunning = FALSE

\* C5: every written proof file carries a flag that is true exactly when the root
\* of the generation equalled the canonical root; so two written files with the same
\* content never come from a generation that matched and one that did not.
C5_ArtifactCarriesMatchFlag ==
    \A g, h \in 1..Len(gens) :
        (/\ gens[g].pc \in {"finish", "ok"} /\ gens[h].pc \in {"finish", "ok"}
         /\ gens[g].wrapper = gens[h].wrapper)
        => (RootMatches(g) <=> RootMatches(h))

\* the stages of the pipeline before the file is written
PreWriteStages == {"interval", "event", "eth2config", "elblock", "calc", "tree", "marshal"}

\* C6: a generation that fails at a stage before the write (in particular one whose
\* interval has no snapshot event) goes to handleError and returns, the file of its
\* interval is as the generation found it, and isRunning is false after its end.
C6_FailureBeforeWriteLeavesArtifact ==
    \A g \in 1..Len(gens) :
        /\ GetRewardSnapshotEvent(gens[g].index) = {}
             => gens[g].pc \in {"interval", "event", "handleError", "failed"}
        /\ gens[g].failedAt \in PreWriteStages
             => /\ gens[g].pc \in {"handleError", "failed"}
                /\ ~gens[g].wrote
                /\ g = Len(gens) => artifacts[gens[g].index] = gens[g].before
                /\ (gens[g].pc = "failed" /\ g = Len(gens) /\ NoneStarting)
                     => isRunning = FALSE

C6_Witness ==
    \E g \in 1..Len(gens) :
        /\ GetRewardSnapshotEvent(gens[g].index) = {}
        /\ gens[g].pc = "failed" /\ gens[g].failedAt = "event"
        /\ artifacts[gens[g].index] = NoFile
        /\ isRunning = FALSE

\* C7: a reader of a rewards tree file never sees a partially written file: a file
\* that exists is complete.
C7_ReadersSeeCompleteFile ==
    \A i \in Indexes : artifacts[i].exists => artifacts[i].complete

C9_PollDeletesOnlyFirstRequest ==
    \A p \in DOMAIN run :
        /\ Cardinality(run[p].removed) <= 1
        /\ Len(run[p].started) <= 1
        /\ \A r \in run[p].removed :
              /\ r.kind = "file"
              /\ \E i \in 1..Len(run[p].files) :
                    /\ FirstMarkerAt(run[p].files, i)
                    /\ run[p].files[i].name = r.name
                    /\ run[p].files[i].serial = r.serial
        /\ \A i \in 1..Len(run[p].files) :
              (\A r \in run[p].removed : r.name # run[p].files[i].name)
              => /\ requestDir[run[p].files[i].name] =
                        (IF run[p].files[i].isDir THEN "dir" ELSE "file")
                 /\ created[run[p].files[i].name] = run[p].files[i].serial

C9_Witness ==
    \E p \in DOMAIN run :
        /\ run[p].pc = "done"
        /\ Len(run[p].files) = 2
        /\ run[p].files[1].isDir
        /\ Cardinality(run[p].removed) = 1
        /\ Len(run[p].started) = 1
        /\ requestDir[run[p].files[1].name] = "dir"

\* C10: a poll that returns an error has started no generation and leaves isRunning
\* false, and after an enumeration or parse error it has deleted nothing; a poll whose
\* first request marker does not parse returns the parse error, and a poll that ends
\* without having deleted its parseable first request marker returns the removal error.
C10_PollErrorStartsNothing ==
    \A p \in DOMAIN run :
        /\ (run[p].pc = "done" /\ run[p].err # "")
             => /\ run[p].started = <<>>
                /\ isRunning = FALSE
                /\ run[p].err \in {"enumerate", "parse"} => run[p].removed = {}
                /\ run[p].err = "remove" => run[p].removed = {}
        /\ \A i \in 1..Len(run[p].files) :
              (run[p].pc = "done" /\ FirstMarkerAt(run[p].files, i))
              => /\ ~IndexOf(run[p].files[i].name)[1]
                      => run[p].err = "parse" /\ OnDisk(run[p].files[i].name, run[p].files[i].serial)
                 /\ (IndexOf(run[p].files[i].name)[1] /\ run[p].removed = {})
                      => run[p].err = "remove"

C10_Witness ==
    \E p \in DOMAIN run :
        /\ run[p].pc = "done" /\ run[p].err = "parse"
        /\ run[p].filename = Name09
        /\ Len(run[p].files) = 2
        /\ requestDir[Name09] = "file"
        /\ gens = <<>>

\* the next step of invocation p of run(), whichever it is
RunStep(p) ==
    \/ Run_Check(p) \/ Run_ReadDir(p) \/ Run_Scan(p)
    \/ Run_Remove(p) \/ Run_SetRunning(p) \/ Run_Go(p)

\* C11: run() never waits for a generation: whatever the goroutines are doing, the
\* invocation can take its next step (or be invoked again once it has returned), and
\* the error it returns is never one of a pipeline stage.
C11_PollNeverWaits ==
    \A p \in DOMAIN run :
        /\ ENABLED RunStep(p)
        /\ run[p].err \in {"", "enumerate", "parse", "remove"}
        /\ run[p].pc \in {"idle", "readdir", "scan", "remove", "lock", "go", "done"}

C11_Witness ==
    \E p \in DOMAIN run :
        /\ run[p].pc = "done" /\ run[p].err = "" /\ Len(run[p].started) = 1
        /\ Len(gens) = 2
        /\ gens[1].pc = "failed"
        /\ gens[2].pc = "interval"
        /\ ENABLED Run_Check(p)

\* the marker names whose index parses to N
NamesOf(N) ==
    {n \in Names : HasSuffix(n, RegenerateRewardsTreeRequestSuffix) /\ IndexOf(n) = <<TRUE, N>>}

\* the goroutines started for interval N
GensOf(N) == {g \in 1..Len(gens) : gens[g].index = N}

\* C13: no automatic retry: the generations started for an interval N are as many
\* as the marker files of N that a poll deleted and dispatched, whatever the outcome
\* of those generations; a failed generation is not started again.
C13_NoRetryAfterFailure ==
    \A N \in Indexes :
        Cardinality(GensOf(N)) = Cardinality({m \in served : m[1] \in NamesOf(N)})

C13_Witness ==
    \E p \in DOMAIN run :
        /\ Len(gens) = 1 /\ gens[1].pc = "failed"
        /\ run[p].pc = "done" /\ ~run[p].sawRunning /\ run[p].err = ""
        /\ run[p].started = <<>>
        /\ isRunning = FALSE

\* C14: a calculation that succeeds and reports nodes with an invalid network does
\* not abort the generation: it can only fail in a later stage, and when it does not,
\* the file of its interval holds the wrapper built from that calculation.
C14_InvalidNetworkStillCompletes ==
    \A g \in 1..Len(gens) : \A c \in gens[g].calc :
        c.invalidNodeNetworks # {}
        => /\ gens[g].failedAt \in {"", "tree", "marshal", "write"}
           /\ (gens[g].pc \in {"finish", "ok"} /\ g = Len(gens))
                => artifacts[gens[g].index] =
                     [exists |-> TRUE, complete |-> TRUE,
                      bytes |-> {GenerateTreeJson(MerkleRoot(c.nodeRewardsMap),
                                                  c.nodeRewardsMap, c.networkRewardsMap)}]

C14_Witness ==
    \E g \in 1..Len(gens) : \E c \in gens[g].calc :
        /\ c.invalidNodeNetworks # {}
        /\ gens[g].pc = "ok"
        /\ artifacts[gens[g].index].complete

\* how many marker files of interval N were created
RECURSIVE CreatedOf(_)
CreatedOf(S) ==
    IF S = {} THEN 0
    ELSE LET n == CHOOSE m \in S : TRUE IN created[n] + CreatedOf(S \ {n})

\* C16: deletion precedes dispatch and a marker is consumed at most once: a poll that
\* sets isRunning or has started a generation for N has deleted a marker file of N,
\* which is gone, and the generations started for N are never more than the marker
\* files of N that were created.
C16_DeletionPrecedesDispatch ==
    /\ \A p \in DOMAIN run :
          /\ run[p].pc \in {"lock", "go"} => Cardinality(run[p].removed) = 1
          /\ run[p].started # <<>>
               => \E r \in run[p].removed :
                     /\ r.kind = "file"
                     /\ r.name \in NamesOf(run[p].started[1])
                     /\ ~OnDisk(r.name, r.serial)
    /\ \A N \in Indexes : Cardinality(GensOf(N)) <= CreatedOf(NamesOf(N))

C16_Witness ==
    \E p \in DOMAIN run :
        /\ run[p].started = <<1>>
        /\ created[Name1] = 2
        /\ requestDir[Name1] = "file"
        /\ Cardinality(GensOf(1)) = 1

\* the invocations of run() that have set isRunning and not yet reached go
Starting == {p \in DOMAIN run : run[p].pc = "go"}

\* C17 as stated: isRunning is true exactly when one generation has been dispatched
\* and has not finished.
C17_IsRunningIffOneInFlight == isRunning <=> Cardinality(InFlight) = 1

\* C17 as amended: isRunning is true exactly when one generation is in flight or
\* run() has set the flag and stands before its go statement; the two never happen
\* together, so isRunning is never false while a generation runs a stage and never
\* true after the generation has ended and before the next is being started.
C17_IsRunningIffInFlightOrStarting ==
    /\ Cardinality(InFlight) + Cardinality(Starting) <= 1
    /\ isRunning <=> (Cardinality(InFlight) + Cardinality(Starting) = 1)

C17_Witness ==
    /\ Len(gens) = 2
    /\ gens[1].pc = "ok"
    /\ gens[2].pc = "calc"
    /\ isRunning = TRUE

(***************************************************************************)
(* SpecFair: the periodic driver keeps invoking run(), the goroutines keep  *)
(* being scheduled until they return, and the enumeration and the removal   *)
(* of run() do not fail for ever.                                           *)
(***************************************************************************)
\* the next step of goroutine g, whichever it is
GenStep(g) ==
    \/ Gen_GetEventLogInterval(g) \/ Gen_GetRewardSnapshotEvent(g)
    \/ Gen_GetEth2Config(g) \/ Gen_GetELBlockHeaderForTime(g)
    \/ Gen_CalculateRplRewards(g) \/ Gen_GenerateMerkleTree(g)
    \/ Gen_ValidateRoot(g) \/ Gen_Marshal(g)
    \/ Gen_WriteFileOpen(g) \/ Gen_WriteFileWrite(g)
    \/ Gen_Finish(g) \/ Gen_HandleError(g)

\* ioutil.ReadDir returning without error
Run_ReadDirOk(p) == Run_ReadDir(p) /\ run'[p].pc = "scan"

\* os.Remove returning without error
Run_RemoveOk(p) == Run_Remove(p) /\ run'[p].pc = "lock"

Fairness ==
    /\ WF_vars(RunStep(1))
    /\ SF_vars(Run_ReadDirOk(1))
    /\ SF_vars(Run_RemoveOk(1))
    /\ \A g \in 1..MaxSubmits : WF_vars(GenStep(g))

SpecFair == Init /\ [][Next]_vars /\ Fairness

\* the marker names with a parseable index
ParseableNames ==
    {n \in Names : HasSuffix(n, RegenerateRewardsTreeRequestSuffix) /\ IndexOf(n)[1]}

\* C12 (under SpecFair): every marker file with a parseable index that is in the
\* folder is eventually deleted by a poll that starts the generation of its index,
\* whatever else is in the folder.
C12_EveryMarkerEventuallyServed ==
    \A n \in ParseableNames : \A k \in 1..MaxSubmits :
        OnDisk(n, k) ~> (<<n, k>> \in served)

\* the same, in behaviours where no file with the suffix and an unparseable index
\* is ever in the folder
C12_ServedUnlessBlocked ==
    [](\A n \in Names \ ParseableNames :
          HasSuffix(n, RegenerateRewardsTreeRequestSuffix) => requestDir[n] # "file")
    => C12_EveryMarkerEventuallyServed

(***************************************************************************)
(* SpecMerkle: the Merkle tree builder alone.  nodeRewardsMap is a Go map,   *)
(* which the builder iterates in an order that differs from run to run; the *)
(* builder puts the leaves in canonical order before it hashes them.         *)
(***************************************************************************)
\* addresses of the distributions of SpecMerkle are 1..MaxLeaves
MaxLeaves == 3

\* the variables of the rewards tree task
rewardsVars == <<isRunning, requestDir, created, run, gens, artifacts, skipped, served>>

\* the rewards tree task at rest
RewardsIdle ==
    /\ isRunning = FALSE
    /\ requestDir = [n \in Names |-> "none"]
    /\ created = [n \in Names |-> 0]
    /\ run = [p \in {1} |-> NoRun]
    /\ gens = <<>>
    /\ artifacts = [i \in Indexes |-> NoFile]
    /\ skipped = {}
    /\ served = {}

\* the distributions: each address of a subset of 1..MaxLeaves with one amount
Distributions ==
    UNION {[A -> {0, 5, 8}] : A \in SUBSET (1..MaxLeaves)}

\* a distribution as the set of its <<address, amount>> entries
Entries(dist) == {<<a, dist[a]>> : a \in DOMAIN dist}

\* the orders in which the entries of a map may come out of an iteration
Iterations(entries) ==
    {s \in [1..Cardinality(entries) -> entries] :
        \A i, j \in 1..Cardinality(entries) : s[i] = s[j] => i = j}

\* leaf put at its place in a sequence that is in ascending order of address
RECURSIVE InsertLeaf(_, _)
InsertLeaf(sorted, leaf) ==
    IF sorted = <<>> THEN <<leaf>>
    ELSE IF leaf[1] <= Head(sorted)[1] THEN <<leaf>> \o sorted
    ELSE <<Head(sorted)>> \o InsertLeaf(Tail(sorted), leaf)

\* SortByAddress that leaves the leaves in the order of the iteration
SortByAddressKeepsOrder(leaves) == leaves

\* the leaves of an iteration in canonical order
RECURSIVE SortByAddress(_)
SortByAddress(leaves) ==
    IF leaves = <<>> THEN <<>>
    ELSE InsertLeaf(SortByAddress(Tail(leaves)), Head(leaves))

\* the leaves with a nonzero amount, in the order of the iteration
RECURSIVE NonZero(_)
NonZero(leaves) ==
    IF leaves = <<>> THEN <<>>
    ELSE IF Head(leaves)[2] # 0 THEN <<Head(leaves)>> \o NonZero(Tail(leaves))
    ELSE NonZero(Tail(leaves))

\* rprewards.GenerateMerkleTree on the entries as one iteration of the map yields them
GenerateMerkleTree(iteration) ==
    LET sorted == SortByAddress(NonZero(iteration))
    IN TreeRoot([i \in 1..Len(sorted) |-> LeafHash(sorted[i])])

NoTree == [pc |-> "idle", map |-> {}, first |-> <<>>, second |-> <<>>, roots |-> <<>>]

InitMerkle ==
    /\ RewardsIdle
    /\ tree = NoTree
    /\ respond = <<>>
    /\ purging = <<>>

\* the calculator hands a distribution to the builder
Merkle_Calculate ==
    /\ tree.pc = "idle"
    /\ \E dist \in Distributions :
        tree' = [NoTree EXCEPT !.pc = "first", !.map = Entries(dist)]
    /\ UNCHANGED <<rewardsVars, respond, purging>>

\* the tree is built from the distribution
Merkle_Build ==
    /\ tree.pc = "first"
    /\ \E it \in Iterations(tree.map) :
        tree' = [tree EXCEPT !.pc = "second", !.first = it,
                             !.roots = <<GenerateMerkleTree(it)>>]
    /\ UNCHANGED <<rewardsVars, respond, purging>>

\* the tree is built again from the same distribution
Merkle_Rebuild ==
    /\ tree.pc = "second"
    /\ \E it \in Iterations(tree.map) :
        tree' = [tree EXCEPT !.pc = "built", !.second = it,
                             !.roots = Append(@, GenerateMerkleTree(it))]
    /\ UNCHANGED <<rewardsVars, respond, purging>>

NextMerkle == Merkle_Calculate \/ Merkle_Build \/ Merkle_Rebuild

SpecMerkle == InitMerkle /\ [][NextMerkle]_vars

\* C15 (under SpecMerkle): the root is a function of the set of leaves: the two
\* builds from one distribution give the same root, whatever the order in which each
\* iterated the map, and it is the root of the pipeline's tree for that distribution.
C15_RootIndependentOfIteration ==
    \A i \in 1..Len(tree.roots) :
        /\ tree.roots[i] = tree.roots[1]
        /\ tree.roots[i] = MerkleRoot(tree.map)

C15_Witness ==
    /\ tree.pc = "built"
    /\ Cardinality(tree.map) = 3
    /\ \A leaf \in tree.map : leaf[2] # 0
    /\ tree.first[1] # tree.second[1]
    /\ tree.first[3] # tree.second[3]
    /\ tree.roots[1] = tree.roots[2]

(***************************************************************************)
(* SpecChallenges: the respond-to-challenges task.  The chain says whether   *)
(* the node account is a member of the trusted node DAO and whether it has   *)
(* an active challenge against it; both change as blocks arrive.             *)
(***************************************************************************)
\* the transactions the task may submit in all
MaxResponses == 2

NoRespond == [pc |-> "idle", member |-> FALSE, challenged |-> FALSE,
              nodeTrusted |-> FALSE, isChallenged |-> FALSE, err |-> "", sent |-> FALSE,
              responses |-> 0]

InitChallenges ==
    /\ RewardsIdle
    /\ tree = <<>>
    /\ respond = NoRespond
    /\ purging = <<>>

\* a call of the run that returns its error to the caller
RespondFails(what) ==
    respond' = [respond EXCEPT !.pc = "returned", !.err = what]

\* the chain moves on: the account joins or leaves the DAO, is challenged or cleared
Chain_Update ==
    /\ respond # <<>>
    /\ \E member, challenged \in BOOLEAN :
        /\ <<member, challenged>> # <<respond.member, respond.challenged>>
        /\ respond' = [respond EXCEPT !.member = member, !.challenged = challenged]
    /\ UNCHANGED <<rewardsVars, tree, purging>>

\* the task is run
Respond_Run ==
    /\ respond # <<>>
    /\ respond.pc \in {"idle", "returned"}
    /\ respond.responses < MaxResponses
    /\ respond' = [respond EXCEPT !.pc = "sync", !.nodeTrusted = FALSE,
                                  !.isChallenged = FALSE, !.err = "", !.sent = FALSE]
    /\ UNCHANGED <<rewardsVars, tree, purging>>

Respond_WaitEthClientSynced ==
    /\ respond # <<>>
    /\ respond.pc = "sync"
    /\ \/ RespondFails("sync")
       \/ respond' = [respond EXCEPT !.pc = "account"]
    /\ UNCHANGED <<rewardsVars, tree, purging>>

Respond_GetNodeAccount ==
    /\ respond # <<>>
    /\ respond.pc = "account"
    /\ \/ RespondFails("account")
       \/ respond' = [respond EXCEPT !.pc = "trusted"]
    /\ UNCHANGED <<rewardsVars, tree, purging>>

Respond_GetMemberExists ==
    /\ respond # <<>>
    /\ respond.pc = "trusted"
    /\ \/ RespondFails("trusted")
       \/ respond' = [respond EXCEPT !.nodeTrusted = respond.member,
                          !.pc = IF respond.member THEN "challenged" ELSE "returned"]
    /\ UNCHANGED <<rewardsVars, tree, purging>>

\* GetMemberIsChallenged whose answer the run does not look at
Respond_GetMemberIsChallengedAnyAnswer ==
    /\ respond # <<>>
    /\ respond.pc = "challenged"
    /\ \/ RespondFails("challenged")
       \/ respond' = [respond EXCEPT !.isChallenged = respond.challenged,
                                     !.pc = "transactor"]
    /\ UNCHANGED <<rewardsVars, tree, purging>>

Respond_GetMemberIsChallenged ==
    /\ respond # <<>>
    /\ respond.pc = "challenged"
    /\ \/ RespondFails("challenged")
       \/ respond' = [respond EXCEPT !.isChallenged = respond.challenged,
                          !.pc = IF respond.challenged THEN "transactor" ELSE "returned"]
    /\ UNCHANGED <<rewardsVars, tree, purging>>

Respond_GetNodeAccountTransactor ==
    /\ respond # <<>>
    /\ respond.pc = "transactor"
    /\ \/ RespondFails("transactor")
       \/ respond' = [respond EXCEPT !.pc = "decide"]
    /\ UNCHANGED <<rewardsVars, tree, purging>>

\* the challenge-response transaction is submitted
Respond_DecideChallenge ==
    /\ respond # <<>>
    /\ respond.pc = "decide"
    /\ \E err \in {"", "decide"} :
        respond' = [respond EXCEPT !.pc = "returned", !.err = err, !.sent = TRUE,
                                   !.responses = @ + 1]
    /\ UNCHANGED <<rewardsVars, tree, purging>>

NextChallenges ==
    \/ Chain_Update
    \/ Respond_Run
    \/ Respond_WaitEthClientSynced
    \/ Respond_GetNodeAccount
    \/ Respond_GetMemberExists
    \/ Respond_GetMemberIsChallenged
    \/ Respond_GetNodeAccountTransactor
    \/ Respond_DecideChallenge

SpecChallenges == InitChallenges /\ [][NextChallenges]_vars

\* the checks that precede the transaction
PrecedingChecks == {"sync", "account", "trusted", "challenged", "transactor"}

\* C18 (under SpecChallenges): a run submits the challenge-response transaction only
\* after GetMemberExists answered trusted and GetMemberIsChallenged answered
\* challenged, and a run in which one of the preceding checks returned an error, or
\* one of the two answers was no, has submitted nothing.
C18_RespondsOnlyWhenTrustedAndChallenged ==
    /\ respond.sent =>
          /\ respond.nodeTrusted
          /\ respond.isChallenged
          /\ respond.err \notin PrecedingChecks
    /\ (/\ respond.pc = "returned"
        /\ \/ respond.err \in PrecedingChecks
           \/ ~respond.nodeTrusted
           \/ ~respond.isChallenged) => ~respond.sent
    /\ respond.pc = "decide" => respond.nodeTrusted /\ respond.isChallenged /\ respond.err = ""

C18_Witness ==
    /\ respond.pc = "returned"
    /\ respond.sent
    /\ respond.err = ""
    /\ respond.nodeTrusted
    /\ respond.isChallenged

(***************************************************************************)
(* SpecPurge: the wallet purge call of the API.                             *)
(***************************************************************************)
\* the validator pubkeys there are
Pubkeys == {"k1", "k2"}

\* the names a custom keystore file may have
KeystoreNames == {"a.json", "b.json"}

\* what a keystore file holds: a pubkey, or bytes that are no keystore
KeystoreContents == Pubkeys \cup {"garbage"}

\* a custom key folder: each of some names with its content
KeyFolders == UNION {[N -> KeystoreContents] : N \in SUBSET KeystoreNames}

\* the files of a folder yet to be processed, in the order of ioutil.ReadDir
FilesOf(folder) ==
    IF "a.json" \in DOMAIN folder
    THEN IF "b.json" \in DOMAIN folder THEN <<"a.json", "b.json">> ELSE <<"a.json">>
    ELSE IF "b.json" \in DOMAIN folder THEN <<"b.json">> ELSE <<>>

\* the purge call before its first statement, with the machine it runs on
NewPurge(kind, folder, pubkeys) ==
    [pc |-> "services", result |-> "", err |-> "",
     customKeyDir |-> kind, folder |-> folder, minipoolPubkeys |-> pubkeys,
     pubkeyMap |-> {}, files |-> <<>>,
     validatorKeys |-> Pubkeys, wallet |-> TRUE, password |-> TRUE, restarted |-> FALSE]

InitPurge ==
    /\ RewardsIdle
    /\ tree = <<>>
    /\ respond = <<>>
    /\ \E kind \in {"missing", "file", "dir"} :
       \E folder \in KeyFolders :
       \E pubkeys \in SUBSET Pubkeys :
          /\ kind # "dir" => folder = <<>>
          /\ purging = NewPurge(kind, folder, pubkeys)

\* return nil, err
PurgeFails(what) ==
    purging' = [purging EXCEPT !.pc = "returned", !.result = "error", !.err = what]

\* return &response, nil
PurgeSucceeds ==
    purging' = [purging EXCEPT !.pc = "returned", !.result = "ok"]

Purge_GetServices ==
    /\ purging # <<>>
    /\ purging.pc = "services"
    /\ \/ \E what \in {"config", "rocketpool", "wallet", "passwordManager",
                       "nodeAccount", "beaconClient", "docker"} : PurgeFails(what)
       \/ purging' = [purging EXCEPT !.pc = "pubkeys"]
    /\ UNCHANGED <<rewardsVars, tree, respond>>

Purge_GetNodeValidatingMinipoolPubkeys ==
    /\ purging # <<>>
    /\ purging.pc = "pubkeys"
    /\ \/ PurgeFails("pubkeys")
       \/ purging' = [purging EXCEPT !.pc = "stat",
                          !.pubkeyMap = purging.minipoolPubkeys,
                          !.validatorKeys = @ \ purging.minipoolPubkeys]
    /\ UNCHANGED <<rewardsVars, tree, respond>>

Purge_Stat ==
    /\ purging # <<>>
    /\ purging.pc = "stat"
    /\ \/ /\ purging.customKeyDir # "dir"
          /\ PurgeSucceeds
       \/ /\ purging.customKeyDir = "dir"
          /\ purging' = [purging EXCEPT !.pc = "readdir"]
       \/ \* os.Stat fails otherwise than with not-exist: info is nil
          purging' = [purging EXCEPT !.pc = "returned", !.result = "panic"]
    /\ UNCHANGED <<rewardsVars, tree, respond>>

Purge_ReadDir ==
    /\ purging # <<>>
    /\ purging.pc = "readdir"
    /\ \/ PurgeFails("enumerate")
       \/ /\ FilesOf(purging.folder) = <<>>
          /\ PurgeSucceeds
       \/ /\ FilesOf(purging.folder) # <<>>
          /\ purging' = [purging EXCEPT !.pc = "file", !.files = FilesOf(purging.folder)]
    /\ UNCHANGED <<rewardsVars, tree, respond>>

\* one pass of the loop over the custom keystore files
Purge_ProcessFile ==
    /\ purging # <<>>
    /\ purging.pc = "file"
    /\ LET file == Head(purging.files)
           rest == Tail(purging.files)
           next == IF rest = <<>> THEN "wallet" ELSE "file"
       IN \/ PurgeFails("read")
          \/ /\ file \in DOMAIN purging.folder
             /\ purging.folder[file] = "garbage"
             /\ PurgeFails("deserialize")
          \/ /\ file \in DOMAIN purging.folder
             /\ purging.folder[file] \in Pubkeys \ purging.pubkeyMap
             /\ purging' = [purging EXCEPT !.pc = next, !.files = rest]
          \/ /\ file \in DOMAIN purging.folder
             /\ purging.folder[file] \in purging.pubkeyMap
             /\ \/ PurgeFails("remove")
                \/ purging' = [purging EXCEPT !.pc = next, !.files = rest,
                       !.folder = [n \in DOMAIN purging.folder \ {file} |-> purging.folder[n]]]
    /\ UNCHANGED <<rewardsVars, tree, respond>>

Purge_DeleteWallet ==
    /\ purging # <<>>
    /\ purging.pc = "wallet"
    /\ \/ PurgeFails("wallet")
       \/ purging' = [purging EXCEPT !.pc = "password", !.wallet = FALSE]
    /\ UNCHANGED <<rewardsVars, tree, respond>>

Purge_DeletePassword ==
    /\ purging # <<>>
    /\ purging.pc = "password"
    /\ \/ PurgeFails("password")
       \/ purging' = [purging EXCEPT !.pc = "restart", !.password = FALSE]
    /\ UNCHANGED <<rewardsVars, tree, respond>>

Purge_RestartValidator ==
    /\ purging # <<>>
    /\ purging.pc = "restart"
    /\ \/ PurgeFails("restart")
       \/ purging' = [purging EXCEPT !.pc = "returned", !.result = "ok",
                                     !.restarted = TRUE]
    /\ UNCHANGED <<rewardsVars, tree, respond>>

NextPurge ==
    \/ Purge_GetServices
    \/ Purge_GetNodeValidatingMinipoolPubkeys
    \/ Purge_Stat
    \/ Purge_ReadDir
    \/ Purge_ProcessFile
    \/ Purge_DeleteWallet
    \/ Purge_DeletePassword
    \/ Purge_RestartValidator

SpecPurge == InitPurge /\ [][NextPurge]_vars

\* C19 (under SpecPurge): when purge returns without an error, the wallet and the
\* password are deleted and the validator client has been restarted, whatever the
\* custom key folder is or holds.
C19_SuccessMeansPurged ==
    (purging.pc = "returned" /\ purging.result = "ok") =>
        /\ ~purging.wallet
        /\ ~purging.password
        /\ purging.restarted

====
